---- MODULE Spec2Model ----
(***************************************************************************)
(* The two image scripts of the site: optimize_images.py, which derives    *)
(* resized PNG/WebP variants and a re-encoded copy of profile.png, and     *)
(* resize_gif.py, which writes a half-size copy of at most max_frames      *)
(* frames of assets/svg/pathway.gif.  One behaviour is one Python process  *)
(* that loads one of the two modules, either as the main script or through *)
(* an import statement of another program.                                 *)
(***************************************************************************)
EXTENDS Integers, Sequences, FiniteSets, TLC

(* ---------------- bounds of the model ---------------- *)
MaxFrames == 32      \* source GIFs have 1 .. MaxFrames frames
MaxDim == 3          \* width and height of a source GIF range over 1 .. MaxDim
MaxCalls == 1        \* explicit calls an importing program makes to optimize_profile_image

(* ---------------- program constants ---------------- *)
max_frames == 30
DefaultDuration == 100

input_path == "profile.png"
gif_path == "assets/svg/pathway.gif"
temp_path == "assets/svg/pathway_temp.gif"
optimized_path_in_place == "profile.png"
optimized_path == "profile-optimized.png"

\* the dict of line 49-54, in insertion order (the order .items() iterates in)
sizes ==
  << [filename |-> "profile-200.png",  size |-> <<200, 200>>],
     [filename |-> "profile-400.png",  size |-> <<400, 400>>],
     [filename |-> "profile-200.webp", size |-> <<200, 200>>],
     [filename |-> "profile-400.webp", size |-> <<400, 400>>] >>

\* filename.endswith('.webp') on the names the program passes to it
EndsWithWebp(filename) == filename \in {"profile-200.webp", "profile-400.webp"}

OptimizeOutputs == {sizes[i].filename : i \in 1..Len(sizes)} \cup {optimized_path}
OptimizeFiles == {input_path} \cup OptimizeOutputs
GifFiles == {gif_path, temp_path}
FileNames == OptimizeFiles \cup GifFiles

(* ---------------- file contents ---------------- *)
NoFile == [kind |-> "absent"]
Stale == [kind |-> "stale"]        \* something left by an earlier run
Partial == [kind |-> "partial"]    \* what a failed save leaves of an existing file
Garbage == [kind |-> "garbage"]    \* a file Pillow cannot identify as an image

ProfileSizes == {<<1, 1>>, <<200, 200>>, <<300, 500>>, <<400, 400>>}
Modes == {"RGBA", "RGB", "P"}
GifDurations == {0, 40}            \* 0: the GIF carries no duration

SourceImage(size, mode) ==
  [kind |-> "image", fmt |-> "PNG", size |-> size, mode |-> mode, pixels |-> "source"]
SourceGif(n, size, duration) ==
  [kind |-> "gif", n |-> n, size |-> size, duration |-> duration]

NoImage == [kind |-> "none"]

(* ---------------- state ---------------- *)
VARIABLES
  script,           \* which module this process loads
  loadMode,         \* "main": run as a script, "import": imported by another program
  pillowInstalled,  \* whether `from PIL import Image` succeeds
  fs,               \* the files the scripts name: file name -> contents
  pc,               \* position of the process
  exitStatus,       \* -1 while running, else the exit status of the process
  raised,           \* the uncaught exception that ended the process, or "none"
  stdout,           \* the messages printed so far
  opened,           \* files opened for reading so far
  written,          \* files opened for writing so far
  calls,            \* explicit calls of optimize_profile_image by an importing program
  img,              \* the opened image
  img_rgb,          \* optimize_images.py: the RGB rendering (computed, never saved)
  idx,              \* optimize_images.py: position in sizes
  tell,             \* resize_gif.py: img.tell(), the current frame
  frames,           \* resize_gif.py: the resized frames collected
  frame_count,      \* resize_gif.py
  iterations,       \* resize_gif.py: times the loop body was entered
  loopExit          \* resize_gif.py: how the loop was left

vars == << script, loadMode, pillowInstalled, fs, pc, exitStatus, raised, stdout,
           opened, written, calls, img, img_rgb, idx, tell, frames, frame_count,
           iterations, loopExit >>

optVars == << img_rgb, idx >>
gifVars == << tell, frames, frame_count, iterations, loopExit >>
envVars == << script, loadMode, pillowInstalled >>

(* ---------------- Pillow operations, as the scripts use them ---------------- *)
\* Image.resize(size, LANCZOS): a new image of exactly `size`; Pillow rejects
\* a target with a dimension below 1 ("height and width must be > 0")
ResizeRaises(size) == size[1] < 1 \/ size[2] < 1
ResizeKeepingAspect(im, size) ==
  LET longest == IF im.size[1] > im.size[2] THEN im.size[1] ELSE im.size[2]
  IN [im EXCEPT !.size = << (im.size[1] * size[1]) \div longest,
                            (im.size[2] * size[2]) \div longest >>,
                !.pixels = "lanczos"]
Resize(im, size) == [im EXCEPT !.size = size, !.pixels = "lanczos"]

\* Image.save(filename, fmt): the file holds the image, encoded as fmt
Encoded(im, fmt) == [kind |-> "image", fmt |-> fmt, size |-> im.size,
                     mode |-> im.mode, pixels |-> im.pixels]

\* what a save that raises leaves behind: a file it created is removed, a
\* file that existed before is left unchanged (the open failed) or truncated
AfterFailedSave(old) ==
  IF old = NoFile THEN {NoFile} ELSE {old, Partial}

\* the current frame of an opened GIF, img.copy()
FrameCopy(gif, n) == [src |-> n, size |-> gif.size]
ResizeFrame(fr, size) == [fr EXCEPT !.size = size]

Emit(out, m) == Append(out, m)

Crash(exc) ==
  /\ pc' = "crashed"
  /\ raised' = exc
  /\ exitStatus' = 1

(* ---------------- initial states ---------------- *)
InitCommon ==
  /\ loadMode \in {"main", "import"}
  /\ pillowInstalled \in BOOLEAN
  /\ pc = "start"
  /\ exitStatus = -1
  /\ raised = "none"
  /\ stdout = << >>
  /\ opened = {}
  /\ written = {}
  /\ calls = 0
  /\ img = NoImage
  /\ img_rgb = "unset"
  /\ idx = 1
  /\ tell = 0
  /\ frames = << >>
  /\ frame_count = 0
  /\ iterations = 0
  /\ loopExit = "none"

InitOptimize ==
  /\ script = "optimize_images"
  /\ \E src \in {NoFile, Garbage} \cup {SourceImage(s, m) : s \in ProfileSizes, m \in Modes},
        old \in {NoFile, Stale} :
       fs = [f \in FileNames |->
               IF f = input_path THEN src
               ELSE IF f \in OptimizeOutputs THEN old
               ELSE NoFile]

InitGif ==
  /\ script = "resize_gif"
  /\ \E src \in {NoFile, Garbage} \cup {SourceGif(n, <<w, h>>, d) :
                     n \in 1..MaxFrames, w \in 1..MaxDim, h \in 1..MaxDim, d \in GifDurations},
        old \in {NoFile, Stale} :
       fs = [f \in FileNames |->
               IF f = gif_path THEN src
               ELSE IF f = temp_path THEN old
               ELSE NoFile]

Init == InitCommon /\ (InitOptimize \/ InitGif)

(* ---------------- optimize_images.py ---------------- *)
\* os.path.exists(path)
ExistsAlways(files, path) == TRUE
Exists(files, path) == files[path] # NoFile

\* __name__ == '__main__'
IsMainAlways(mode) == TRUE
IsMain(mode) == mode = "main"

\* module body: the guarded import of Pillow, the def, and the main guard
LoadOptimize ==
  /\ script = "optimize_images"
  /\ pc = "start"
  /\ IF ~pillowInstalled
       THEN /\ stdout' = Emit(Emit(stdout, [msg |-> "Error: Pillow not installed", arg |-> ""]),
                              [msg |-> "Install with: pip install Pillow", arg |-> ""])
            /\ pc' = "exited"
            /\ exitStatus' = 1
       ELSE IF IsMain(loadMode)
         THEN /\ pc' = "call"
              /\ UNCHANGED << stdout, exitStatus >>
         ELSE /\ pc' = "loaded"
              /\ UNCHANGED << stdout, exitStatus >>
  /\ UNCHANGED << envVars, fs, raised, opened, written, calls, img, optVars, gifVars >>

\* the importing program calls optimize_profile_image() itself
CallEntryPoint ==
  /\ script = "optimize_images"
  /\ pc = "loaded"
  /\ calls < MaxCalls
  /\ pc' = "call"
  /\ calls' = calls + 1
  /\ UNCHANGED << envVars, fs, exitStatus, raised, stdout, opened, written, img,
                  optVars, gifVars >>

\* lines 30-34: the early return when the input is missing
CheckInput ==
  /\ pc = "call"
  /\ IF ~Exists(fs, input_path)
       THEN /\ stdout' = Emit(stdout, [msg |-> "Error: not found", arg |-> input_path])
            /\ pc' = "returned"
       ELSE /\ pc' = "open"
            /\ UNCHANGED stdout
  /\ UNCHANGED << envVars, fs, exitStatus, raised, opened, written, calls, img,
                  optVars, gifVars >>

\* lines 37-38: Image.open and the report of the original
OpenProfile ==
  /\ pc = "open"
  /\ IF fs[input_path] = NoFile
       THEN /\ Crash("FileNotFoundError")
            /\ UNCHANGED << opened, img, stdout >>
       ELSE IF fs[input_path].kind # "image"
         THEN /\ Crash("UnidentifiedImageError")
              /\ opened' = opened \cup {input_path}
              /\ UNCHANGED << img, stdout >>
         ELSE /\ img' = fs[input_path]
              /\ opened' = opened \cup {input_path}
              /\ stdout' = Emit(stdout, [msg |-> "Original", arg |-> fs[input_path].size])
              /\ pc' = "convert"
              /\ UNCHANGED << exitStatus, raised >>
  /\ UNCHANGED << envVars, fs, written, calls, optVars, gifVars >>

\* lines 41-47: the RGB rendering, which nothing below uses
ConvertRGB ==
  /\ pc = "convert"
  /\ img_rgb' = IF img.mode = "RGBA" THEN "white background" ELSE "converted"
  /\ idx' = 1
  /\ pc' = "sizes"
  /\ UNCHANGED << envVars, fs, exitStatus, raised, stdout, opened, written, calls,
                  img, gifVars >>

\* lines 56-68: one iteration of the loop over sizes
ResizeAndSave ==
  /\ pc = "sizes"
  /\ idx <= Len(sizes)
  /\ LET filename == sizes[idx].filename
         size == sizes[idx].size
         fmt == IF EndsWithWebp(filename) THEN "WebP" ELSE "PNG"
     IN IF ResizeRaises(size)
          THEN /\ Crash("ValueError")
               /\ UNCHANGED << fs, written, stdout, idx >>
          ELSE /\ written' = written \cup {filename}
               /\ \/ /\ fs' = [fs EXCEPT ![filename] = Encoded(Resize(img, size), fmt)]
                     /\ stdout' = Emit(stdout, [msg |-> "Created", arg |-> filename])
                     /\ idx' = idx + 1
                     /\ UNCHANGED << pc, exitStatus, raised >>
                  \/ /\ \E left \in AfterFailedSave(fs[filename]) :
                          fs' = [fs EXCEPT ![filename] = left]
                     /\ Crash("OSError")
                     /\ UNCHANGED << stdout, idx >>
  /\ UNCHANGED << envVars, opened, calls, img, img_rgb, gifVars >>

\* lines 70-79: the re-encoded copy of the original and the closing messages
SaveOptimized ==
  /\ pc = "sizes"
  /\ idx > Len(sizes)
  /\ written' = written \cup {optimized_path}
  /\ \/ /\ fs' = [fs EXCEPT ![optimized_path] = Encoded(img, "PNG")]
        /\ stdout' = Emit(Emit(Emit(stdout,
                        [msg |-> "Optimized original", arg |-> optimized_path]),
                        [msg |-> "Savings", arg |-> input_path]),
                        [msg |-> "Optimization complete", arg |-> ""])
        /\ pc' = "returned"
        /\ UNCHANGED << exitStatus, raised >>
     \/ /\ \E left \in AfterFailedSave(fs[optimized_path]) :
             fs' = [fs EXCEPT ![optimized_path] = left]
        /\ Crash("OSError")
        /\ UNCHANGED stdout
  /\ UNCHANGED << envVars, opened, calls, img, optVars, gifVars >>

\* the function returns: to the end of the script, or to the importing program
Return ==
  /\ pc = "returned"
  /\ IF IsMain(loadMode)
       THEN pc' = "done" /\ exitStatus' = 0
       ELSE pc' = "loaded" /\ UNCHANGED exitStatus
  /\ UNCHANGED << envVars, fs, raised, stdout, opened, written, calls, img,
                  optVars, gifVars >>

(* ---------------- resize_gif.py ---------------- *)
\* the loop condition of line 12
LoopContinuesOffByOne(fc) == fc <= max_frames
LoopContinues(fc) == fc < max_frames

\* lines 1-9: the import, Image.open and the initialisation, at module level
LoadGif ==
  /\ script = "resize_gif"
  /\ pc = "start"
  /\ IF ~pillowInstalled
       THEN Crash("ImportError") /\ UNCHANGED << opened, img >>
       ELSE IF fs[gif_path] = NoFile
         THEN Crash("FileNotFoundError") /\ UNCHANGED << opened, img >>
         ELSE IF fs[gif_path].kind # "gif"
           THEN /\ Crash("UnidentifiedImageError")
                /\ opened' = opened \cup {gif_path}
                /\ UNCHANGED img
           ELSE /\ img' = fs[gif_path]
                /\ opened' = opened \cup {gif_path}
                /\ pc' = "loop"
                /\ UNCHANGED << exitStatus, raised >>
  /\ tell' = 0
  /\ frames' = << >>
  /\ frame_count' = 0
  /\ UNCHANGED << envVars, fs, stdout, written, calls, optVars, iterations, loopExit >>

\* lines 12-19: one pass through the loop body, or the exit of the loop
ExtractFrame ==
  /\ pc = "loop"
  /\ IF LoopContinues(frame_count)
       THEN LET size == << img.size[1] \div 2, img.size[2] \div 2 >>
            IN /\ iterations' = iterations + 1
               /\ IF ResizeRaises(size)
                    THEN /\ Crash("ValueError")
                         /\ loopExit' = "ValueError"
                         /\ UNCHANGED << frames, tell, frame_count >>
                    ELSE /\ frames' = Append(frames, ResizeFrame(FrameCopy(img, tell), size))
                         /\ IF tell + 1 >= img.n
                              THEN \* seek raises EOFError, caught at line 18
                                   /\ pc' = "save"
                                   /\ loopExit' = "EOFError"
                                   /\ UNCHANGED << tell, frame_count >>
                              ELSE /\ tell' = tell + 1
                                   /\ frame_count' = frame_count + 1
                                   /\ UNCHANGED << pc, loopExit >>
                         /\ UNCHANGED << exitStatus, raised >>
       ELSE /\ pc' = "save"
            /\ loopExit' = "max_frames"
            /\ UNCHANGED << frames, tell, frame_count, iterations, exitStatus, raised >>
  /\ UNCHANGED << envVars, fs, stdout, opened, written, calls, img, optVars >>

\* lines 22-31: frames[0].save(..., append_images=frames[1:], ...) and the message
SaveGif ==
  /\ pc = "save"
  /\ IF Len(frames) = 0
       THEN /\ Crash("IndexError")
            /\ UNCHANGED << fs, written, stdout >>
       ELSE /\ written' = written \cup {temp_path}
            /\ \/ /\ fs' = [fs EXCEPT ![temp_path] =
                              [kind |-> "gif",
                               frames |-> << frames[1] >> \o SubSeq(frames, 2, Len(frames)),
                               duration |-> IF img.duration = 0 THEN DefaultDuration
                                            ELSE img.duration,
                               loop |-> 0]]
                  /\ stdout' = Emit(stdout, [msg |-> "Created temporary GIF", arg |-> Len(frames)])
                  /\ pc' = "done"
                  /\ exitStatus' = 0
                  /\ UNCHANGED raised
               \/ /\ \E left \in AfterFailedSave(fs[temp_path]) :
                       fs' = [fs EXCEPT ![temp_path] = left]
                  /\ Crash("OSError")
                  /\ UNCHANGED stdout
  /\ UNCHANGED << envVars, opened, calls, img, optVars, gifVars >>

(* ---------------- specification ---------------- *)
Next ==
  \/ LoadOptimize
  \/ CallEntryPoint
  \/ CheckInput
  \/ OpenProfile
  \/ ConvertRGB
  \/ ResizeAndSave
  \/ SaveOptimized
  \/ Return
  \/ LoadGif
  \/ ExtractFrame
  \/ SaveGif

Spec == Init /\ [][Next]_vars

(* ---------------- properties ---------------- *)
Min(a, b) == IF a < b THEN a ELSE b

FiveOutputs == {"profile-200.png", "profile-400.png", "profile-200.webp",
                "profile-400.webp", "profile-optimized.png"}

IsImageFile(f, fmt, size) ==
  /\ fs[f].kind = "image"
  /\ fs[f].fmt = fmt
  /\ fs[f].size = size

\* a call of optimize_profile_image that found profile.png has run to its last line
RunComplete ==
  /\ script = "optimize_images"
  /\ \/ pc \in {"returned", "done"}
     \/ pc = "loaded" /\ calls > 0
  /\ fs["profile.png"].kind = "image"

\* C1: when profile.png exists and every save succeeded, a run of
\* optimize_profile_image has written exactly the five output files:
\* profile-200.png and profile-200.webp hold 200x200 images, profile-400.png
\* and profile-400.webp hold 400x400 images, whatever the size of the source,
\* and profile-optimized.png holds the source's own pixels at the source's
\* own size, encoded as PNG.
C1_FiveOutputFiles ==
  RunComplete =>
    /\ written = FiveOutputs
    /\ IsImageFile("profile-200.png", "PNG", <<200, 200>>)
    /\ IsImageFile("profile-200.webp", "WebP", <<200, 200>>)
    /\ IsImageFile("profile-400.png", "PNG", <<400, 400>>)
    /\ IsImageFile("profile-400.webp", "WebP", <<400, 400>>)
    /\ IsImageFile("profile-optimized.png", "PNG", fs["profile.png"].size)
    /\ fs["profile-optimized.png"].pixels = "source"
    /\ \A f \in FiveOutputs \ {"profile-optimized.png"} : fs[f].pixels = "lanczos"

\* a completed run on a source that is neither square nor of a target size
C1_Witness ==
  /\ RunComplete
  /\ fs["profile.png"].size = <<300, 500>>
  /\ fs["profile-400.webp"].size = <<400, 400>>
  /\ fs["profile-optimized.png"].size = <<300, 500>>

ModuleLoaded == pc \in {"loaded", "done"}

\* the input of the loaded script is an image Pillow can open
InputUsable ==
  /\ pillowInstalled
  /\ script = "optimize_images" => fs["profile.png"].kind = "image"
  /\ script = "resize_gif" => fs["assets/svg/pathway.gif"].kind = "gif"

\* C3 as stated: for each of the two scripts, loading the module alone has
\* read its image and written its output, with no explicit call.
C3_BothRunAtLoad ==
  (ModuleLoaded /\ InputUsable /\ calls = 0) =>
    /\ opened # {}
    /\ written # {}

\* C3 as amended: resize_gif.py does its reading and writing in the module
\* body, so a load under any name that ends normally has opened the GIF and
\* written pathway_temp.gif without any call; optimize_images.py calls
\* optimize_profile_image at load only when it is run as the main script, and
\* a mere import opens and writes nothing until the importer calls it.
C3_LoadTimeExecution ==
  /\ (script = "resize_gif" /\ ModuleLoaded) =>
        /\ calls = 0
        /\ "assets/svg/pathway.gif" \in opened
        /\ written = {"assets/svg/pathway_temp.gif"}
  /\ (script = "optimize_images" /\ loadMode = "main" /\ ModuleLoaded /\ InputUsable) =>
        /\ calls = 0
        /\ "profile.png" \in opened
        /\ written = FiveOutputs
  /\ (script = "optimize_images" /\ loadMode = "import" /\ calls = 0) =>
        /\ pc \in {"start", "loaded", "exited"}
        /\ opened = {}
        /\ written = {}

\* optimize_images.py imported, with a usable profile.png, and nothing done
C3_Witness ==
  /\ script = "optimize_images"
  /\ loadMode = "import"
  /\ pc = "loaded"
  /\ calls = 0
  /\ InputUsable
  /\ opened = {}
  /\ written = {}

NotFoundMessage == [msg |-> "Error: not found", arg |-> "profile.png"]

\* C4: while profile.png does not exist, a call of optimize_profile_image
\* prints the error naming profile.png and returns: no step opens an image,
\* changes or writes a file or raises, and the script then ends with status 0.
C4_MissingInput ==
  [][(script = "optimize_images" /\ fs["profile.png"] = NoFile) =>
       /\ fs' = fs
       /\ opened' = {}
       /\ written' = {}
       /\ img' = NoImage
       /\ raised' = "none"
       /\ pc' # "crashed"
       /\ pc = "call" => (pc' = "returned" /\ stdout' = Append(stdout, NotFoundMessage))
       /\ pc = "returned" => (pc' \in {"done", "loaded"} /\ exitStatus' \in {-1, 0})
       /\ pc' = "done" => exitStatus' = 0]_vars

\* the script was run without profile.png and has ended normally
C4_Witness ==
  /\ script = "optimize_images"
  /\ fs["profile.png"] = NoFile
  /\ pc = "done"
  /\ exitStatus = 0
  /\ stdout = << NotFoundMessage >>
  /\ opened = {}

\* the resized copies of source frames 0 .. k-1 of a GIF of the given size
HalvedFrames(k, size) ==
  [i \in 1..k |-> [src |-> i - 1, size |-> << size[1] \div 2, size[2] \div 2 >>]]

GifSaved ==
  /\ script = "resize_gif"
  /\ pc = "done"

\* C5: the frames resize_gif.py saves for a source GIF of N >= 1 frames are
\* the half-size copies of source frames 0 .. min(N, 30) - 1, in source
\* order, each once; the count in the final message is min(N, 30).
C5_SavedFrames ==
  GifSaved =>
    LET src == fs["assets/svg/pathway.gif"]
        out == fs["assets/svg/pathway_temp.gif"]
    IN /\ out.kind = "gif"
       /\ out.frames = HalvedFrames(Min(src.n, 30), src.size)
       /\ Len(out.frames) = Min(src.n, 30)
       /\ stdout[Len(stdout)].msg = "Created temporary GIF"
       /\ stdout[Len(stdout)].arg = Min(src.n, 30)

\* a GIF of 31 frames was saved with 30 of them
C5_Witness ==
  /\ GifSaved
  /\ fs["assets/svg/pathway.gif"].n = 31
  /\ Len(fs["assets/svg/pathway_temp.gif"].frames) = 30

\* the frame-extraction loop of resize_gif.py has been left
LoopEnded ==
  /\ script = "resize_gif"
  /\ img.kind = "gif"
  /\ pc # "loop"

\* C6: for every source GIF of N >= 1 frames the loop ends after at most 30
\* iterations, by EOFError when N <= 30 and by frame_count reaching
\* max_frames when N > 30, and the save step is then reached with at least
\* one collected frame.
C6_LoopTerminates ==
  LoopEnded =>
    /\ iterations <= 30
    /\ img.n <= 30 => loopExit = "EOFError"
    /\ img.n > 30 => loopExit = "max_frames"
    /\ Len(frames) >= 1
    /\ raised \in {"none", "OSError"}

====
